---- MODULE Spec2Model ----
(***************************************************************************)
(* Model of scripts/extract-types.py: the reflection-driven type-schema    *)
(* extractor.  parse_type_annotation, extract_function_info,               *)
(* extract_class_info, extract_module_info and count_missing_annotations   *)
(* are pure and modelled as operators; extract_package_types is modelled   *)
(* as a step machine over the process-wide state it touches (sys.path,     *)
(* sys.stdout, sys.stderr).                                                *)
(***************************************************************************)
EXTENDS Integers, Sequences, FiniteSets, TLC

VARIABLES
    pc,             \* position of the running call / of the pure-function harness
    arg,            \* input of the pure function under check
    out,            \* its result
    sys_path,       \* sys.path
    sys_stdout,     \* sys.stdout
    sys_stderr,     \* sys.stderr
    emitted,        \* stream objects that submodule imports have written to
    call,           \* arguments and environment of the running extract_package_types call
    loc,            \* its local variables
    result          \* its return value or the exception that left it

vars == <<pc, arg, out, sys_path, sys_stdout, sys_stderr, emitted, call, loc, result>>

fnVars  == <<arg, out>>
pkgVars == <<sys_path, sys_stdout, sys_stderr, emitted, call, loc, result>>

Range(s) == { s[i] : i \in 1..Len(s) }

\* Sequences over S without repetition, of length lo..hi
InjSeqs(S, lo, hi) ==
    { s \in UNION { [1..n -> S] : n \in lo..hi } :
        \A i, j \in 1..Len(s) : i # j => s[i] # s[j] }

(***************************************************************************)
(* Runtime annotation objects, as parse_type_annotation receives them.     *)
(*   tag "NoneType" : None or type(None)                                   *)
(*   tag "empty"    : inspect.Parameter.empty / inspect.Signature.empty    *)
(*   tag "str"      : a textual forward reference, name = its text         *)
(*   tag "class"    : a class object, name = __name__ (str, int, float and *)
(*                    bool are the builtin classes of those names)         *)
(*   tag "List", "Dict", "Tuple", "Union" : typing generics with args      *)
(*   tag "Any"      : typing.Any                                           *)
(*   tag "special"  : any other typing special form (Callable, TypeVar)    *)
(***************************************************************************)
Ann(tag, name, args) == [tag |-> tag, name |-> name, args |-> args]

NoneT   == Ann("NoneType", "", <<>>)
EmptyT  == Ann("empty", "", <<>>)
AnyT    == Ann("Any", "", <<>>)
IntT    == Ann("class", "int", <<>>)
StrT    == Ann("class", "str", <<>>)
FloatT  == Ann("class", "float", <<>>)
BoolT   == Ann("class", "bool", <<>>)
ClassT(n) == Ann("class", n, <<>>)
FwdT(s)   == Ann("str", s, <<>>)
ListT(a)  == Ann("List", "", a)
DictT(a)  == Ann("Dict", "", a)
TupleT(a) == Ann("Tuple", "", a)
UnionT(a) == Ann("Union", "", a)
SpecialT  == Ann("special", "Callable", <<>>)

(***************************************************************************)
(* Type descriptors, the schema's {"kind": ...} dictionaries.              *)
(***************************************************************************)
Desc(kind, value, args) == [kind |-> kind, value |-> value, args |-> args]

KNone        == Desc("none", "", <<>>)
KAny         == Desc("any", "", <<>>)
KPrimitive(n) == Desc("primitive", n, <<>>)
KList(e)     == Desc("list", "", <<e>>)
KDict(k, v)  == Desc("dict", "", <<k, v>>)
KTuple(es)   == Desc("tuple", "", es)
KOptional(i) == Desc("optional", "", <<i>>)
KClass(n)    == Desc("class", n, <<>>)

\* typing.get_origin as the resolver uses it
get_origin(a) ==
    CASE a.tag = "List"  -> "list"
      [] a.tag = "Dict"  -> "dict"
      [] a.tag = "Tuple" -> "tuple"
      [] a.tag = "Union" -> "Union"
      [] OTHER           -> "None"

\* typing.get_args
get_args(a) == IF a.tag \in {"List", "Dict", "Tuple", "Union"} THEN a.args ELSE <<>>

\* the table of lines 31-38
type_map(s) ==
    CASE s \in {"str", "int", "float", "bool"} -> KPrimitive(s)
      [] s = "None" -> KNone
      [] s = "Any"  -> KAny
      [] OTHER      -> KAny

\* line 77: [a for a in args if a is not type(None)]
non_none_args(args) == SelectSeq(args, LAMBDA a : a # NoneT)

\* a plausible slip of line 78: any number of non-None members
IsOptionalUnion_AnyNonNone(args) ==
    Len(non_none_args(args)) >= 1 /\ NoneT \in Range(args)

\* line 78: len(non_none_args) == 1 and type(None) in args
IsOptionalUnion(args) ==
    Len(non_none_args(args)) = 1 /\ NoneT \in Range(args)

RECURSIVE parse_type_annotation(_)
parse_type_annotation(a) ==
    LET origin == get_origin(a)
        args   == get_args(a)
    IN
    IF a.tag = "NoneType" THEN KNone
    ELSE IF a.tag = "empty" THEN KAny
    ELSE IF a.tag = "str" THEN type_map(a.name)
    ELSE IF a = StrT THEN KPrimitive("str")
    ELSE IF a = IntT THEN KPrimitive("int")
    ELSE IF a = FloatT THEN KPrimitive("float")
    ELSE IF a = BoolT THEN KPrimitive("bool")
    ELSE IF origin = "list" THEN
        KList(IF Len(args) > 0 THEN parse_type_annotation(args[1]) ELSE KAny)
    ELSE IF origin = "dict" THEN
        KDict(IF Len(args) > 0 THEN parse_type_annotation(args[1]) ELSE KAny,
              IF Len(args) > 1 THEN parse_type_annotation(args[2]) ELSE KAny)
    ELSE IF origin = "tuple" THEN
        KTuple([i \in 1..Len(args) |-> parse_type_annotation(args[i])])
    ELSE IF origin = "NoneType" THEN KNone
    ELSE IF origin = "Union" THEN
        IF IsOptionalUnion(args)
        THEN KOptional(parse_type_annotation(non_none_args(args)[1]))
        ELSE KAny
    ELSE IF a.tag = "class" THEN KClass(a.name)
    ELSE KAny

(***************************************************************************)
(* Inputs of the resolver harness.                                         *)
(***************************************************************************)
MaxUnion == 3

\* member types a union is built from
UnionMembers == { NoneT, IntT, StrT, ClassT("Widget"), ListT(<<IntT>>), AnyT }

\* typing.Union[...] objects: members flattened and de-duplicated by typing,
\* at least two of them
UnionAnnotations == { UnionT(s) : s \in InjSeqs(UnionMembers, 2, MaxUnion) }

OtherAnnotations ==
    UnionMembers \cup
    { EmptyT, FloatT, BoolT, SpecialT, FwdT("int"), FwdT("None"), FwdT("Any"),
      FwdT("Widget"), ListT(<<>>), DictT(<<>>), DictT(<<StrT, IntT>>),
      TupleT(<<>>), TupleT(<<IntT, StrT>>),
      ListT(<<UnionT(<<IntT, NoneT>>)>>), DictT(<<StrT, UnionT(<<IntT, StrT>>)>>) }

Annotations == UnionAnnotations \cup OtherAnnotations

NoValue == Desc("unset", "", <<>>)

(***************************************************************************)
(* Callables, classes and module-level objects as the extractor sees them. *)
(* A parameter is [name, ann, hasDefault]; ann is the annotation           *)
(* hints.get(param_name, param.annotation) selects.                        *)
(* An object bound in a module is one uniform record:                      *)
(*   kind      "function" (inspect.isfunction), "class" (inspect.isclass), *)
(*             "builtin" (callable, neither), "value" (not callable),      *)
(*             "None" (the name is bound to None)                          *)
(*   hasModule whether the object has a __module__ attribute, and module   *)
(*             its value                                                   *)
(*   signature whether inspect.signature succeeds                          *)
(*   methods   for a class: the functions inspect.getmembers lists, every  *)
(*             one an instance method whose first parameter is the         *)
(*             implicit instance reference                                 *)
(*   vtype, reprLen  for a value: type(obj).__name__ and len(repr(obj))    *)
(***************************************************************************)
Param(name, ann, hasDefault) == [name |-> name, ann |-> ann, hasDefault |-> hasDefault]

Obj(name, kind, hasModule, module, signature, params, ret, methods, vtype, reprLen) ==
    [name |-> name, kind |-> kind, hasModule |-> hasModule, module |-> module,
     signature |-> signature, params |-> params, ret |-> ret, methods |-> methods,
     vtype |-> vtype, reprLen |-> reprLen]

FuncObj(name, module, params, ret) ==
    Obj(name, "function", TRUE, module, TRUE, params, ret, <<>>, "function", 0)
ClassObj(name, module, methods) ==
    Obj(name, "class", TRUE, module, TRUE, <<>>, EmptyT, methods, "type", 0)
BuiltinObj(name, module) ==
    Obj(name, "builtin", TRUE, module, FALSE, <<>>, EmptyT, <<>>, "builtin_function_or_method", 0)
ValueObj(name, vtype, reprLen) ==
    Obj(name, "value", FALSE, "", FALSE, <<>>, EmptyT, <<>>, vtype, reprLen)
InstanceObj(name, module, vtype, reprLen) ==
    Obj(name, "value", TRUE, module, FALSE, <<>>, EmptyT, <<>>, vtype, reprLen)
NoneObj(name) ==
    Obj(name, "None", FALSE, "", FALSE, <<>>, EmptyT, <<>>, "NoneType", 4)

\* names for which name.startswith('_') holds, among the names the model uses
UnderscoreNames == { "_f", "_K", "_X", "_hidden", "__init__", "_private" }
startswith_underscore(name) == name \in UnderscoreNames

RECURSIVE Flatten(_)
Flatten(ss) == IF ss = <<>> THEN <<>> ELSE Head(ss) \o Flatten(Tail(ss))

\* line 113: if param_name == 'self': continue
SkipParam(param_name) == param_name = "self"

\* lines 120-125 (the literal default is abstracted to its presence)
ParamInfo(p) ==
    [name |-> p.name, type |-> parse_type_annotation(p.ann), optional |-> p.hasDefault]

\* extract_function_info: <<>> is None, <<info>> a descriptor
extract_function_info(func, name) ==
    IF ~func.signature THEN <<>>
    ELSE
      LET kept == SelectSeq(func.params, LAMBDA p : ~SkipParam(p.name))
      IN << [ name       |-> name,
              params     |-> [i \in 1..Len(kept) |-> ParamInfo(kept[i])],
              returnType |-> parse_type_annotation(func.ret),
              isMethod   |-> FALSE ] >>

\* object.__init__, what cls.__init__ is when the class defines none:
\* its signature is (self, /, *args, **kwargs)
ObjectInit ==
    FuncObj("__init__", "builtins",
            << Param("self", EmptyT, FALSE), Param("args", EmptyT, FALSE),
               Param("kwargs", EmptyT, FALSE) >>, EmptyT)

\* cls.__init__
InitOf(cls) ==
    LET own == SelectSeq(cls.methods, LAMBDA m : m.name = "__init__")
    IN IF own = <<>> THEN ObjectInit ELSE own[1]

AsMethod(infos) == [i \in 1..Len(infos) |-> [infos[i] EXCEPT !.isMethod = TRUE]]

\* extract_class_info (properties, docstring and bases are left out: no
\* claim reads them and they do not influence the other fields)
extract_class_info(cls) ==
    LET public == SelectSeq(cls.methods,
                    LAMBDA m : ~(startswith_underscore(m.name) /\ m.name # "__init__"))
    IN [ name        |-> cls.name,
         constructor |-> AsMethod(extract_function_info(InitOf(cls), "__init__")),
         methods     |-> AsMethod(Flatten([i \in 1..Len(public) |->
                             extract_function_info(public[i], public[i].name)])) ]

(***************************************************************************)
(* Modules: [name |-> __name__, all |-> set(__all__), dir |-> the objects  *)
(* bound to the names of dir(module), in dir order].                       *)
(***************************************************************************)
ModuleObj(name, all, dir) == [name |-> name, all |-> all, dir |-> dir]

ReprLimit == 100

\* a plausible slip of line 215: the `not` before hasattr is missing
is_defined_here_Inverted(module, obj) == obj.hasModule \/ obj.module = module.name

\* line 215
is_defined_here(module, obj) == ~obj.hasModule \/ obj.module = module.name

\* lines 205-218: the name survives the filters of the walk
Visited(module, obj) ==
    /\ ~startswith_underscore(obj.name)
    /\ obj.kind # "None"
    /\ (is_defined_here(module, obj) \/ obj.name \in module.all)

\* repr(obj), kept as what the claims can observe of it
repr(obj) == [of |-> obj.vtype, len |-> obj.reprLen]

\* a plausible slip of line 233: withheld when a container or when long
ConstantValue_Either(obj) ==
    IF ~(obj.vtype \in {"dict", "list"} \/ obj.reprLen >= ReprLimit)
    THEN <<repr(obj)>> ELSE <<>>

\* line 233: <<>> is None
ConstantValue(obj) ==
    IF ~(obj.vtype \in {"dict", "list"}) \/ obj.reprLen < ReprLimit
    THEN <<repr(obj)>> ELSE <<>>

\* lines 229-234
ConstantInfo(obj) ==
    [ name  |-> obj.name,
      type  |-> parse_type_annotation(ClassT(obj.vtype)),
      value |-> ConstantValue(obj) ]

extract_module_info(module, module_name) ==
    LET seen == SelectSeq(module.dir, LAMBDA o : Visited(module, o))
        fs   == SelectSeq(seen, LAMBDA o : o.kind = "function")
        cs   == SelectSeq(seen, LAMBDA o : o.kind = "class")
        ks   == SelectSeq(seen, LAMBDA o : o.kind = "value")
    IN [ name      |-> module_name,
         functions |-> Flatten([i \in 1..Len(fs) |-> extract_function_info(fs[i], fs[i].name)]),
         classes   |-> [i \in 1..Len(cs) |-> extract_class_info(cs[i])],
         constants |-> [i \in 1..Len(ks) |-> ConstantInfo(ks[i])] ]

(***************************************************************************)
(* Coverage accounting.                                                    *)
(***************************************************************************)
RECURSIVE SumSeq(_)
SumSeq(ns) == IF ns = <<>> THEN 0 ELSE Head(ns) + SumSeq(Tail(ns))

\* lines 254-259 and 264-269: the misses of one function or method
MissingOf(owner, f) ==
    LET anyParams == SelectSeq(f.params, LAMBDA p : p.type.kind = "any")
    IN (IF f.returnType.kind = "any"
        THEN << [owner |-> owner, fn |-> f.name, slot |-> "(return type)"] >>
        ELSE <<>>)
       \o [i \in 1..Len(anyParams) |->
             [owner |-> owner, fn |-> f.name, slot |-> anyParams[i].name]]

\* lines 261-269
MissingOfClass(module_name, cls) ==
    Flatten([i \in 1..Len(cls.methods) |->
               MissingOf(<<module_name, cls.name>>, cls.methods[i])])

\* lines 250-269
MissingOfModule(m) ==
    Flatten([i \in 1..Len(m.functions) |-> MissingOf(<<m.name>>, m.functions[i])])
    \o Flatten([i \in 1..Len(m.classes) |-> MissingOfClass(m.name, m.classes[i])])

count_missing_annotations(modules) ==
    Flatten([i \in 1..Len(modules) |-> MissingOfModule(modules[i])])

\* a plausible slip of lines 352 and 355: the return slot is not counted
Slots_ParamsOnly(f) == Len(f.params)

\* lines 352 and 355: 1 + len(params)
Slots(f) == 1 + Len(f.params)

\* lines 349-355
total_items(modules) ==
    SumSeq([i \in 1..Len(modules) |->
        SumSeq([j \in 1..Len(modules[i].functions) |-> Slots(modules[i].functions[j])])
      + SumSeq([j \in 1..Len(modules[i].classes) |->
            SumSeq([k \in 1..Len(modules[i].classes[j].methods) |->
                      Slots(modules[i].classes[j].methods[k])])])])

\* round(n / d, 0) for n, d > 0, as the set of values binary floating point
\* can give: the nearest integer, and either neighbour on an exact tie (the
\* quotient is computed inexactly, so a tie falls to one side or the other)
RoundDiv(n, d) ==
    LET q == n \div d
        r == n % d
    IN IF 2 * r < d THEN {q} ELSE IF 2 * r > d THEN {q + 1} ELSE {q, q + 1}

Hundredths == 100    \* round(coverage, 2): the result is a number of hundredths

\* lines 357-358, in hundredths of a percent
CoverageValues(total, missing) ==
    IF total > 0 THEN RoundDiv((total - missing) * 100 * Hundredths, total)
    ELSE {100 * Hundredths}

\* lines 346-358: the two coverage fields of the schema
CoverageFields(modules) ==
    LET missing == count_missing_annotations(modules)
    IN { [missing |-> missing, coverage |-> c] :
           c \in CoverageValues(total_items(modules), Len(missing)) }

(***************************************************************************)
(* extract_package_types: the environment of a call.                       *)
(***************************************************************************)
Stream(kind, n) == [kind |-> kind, n |-> n]
ConsoleOut == Stream("stdout", 0)       \* the process's own sys.stdout
ConsoleErr == Stream("stderr", 0)       \* the process's own sys.stderr
StringIO(n) == Stream("StringIO", n)    \* the io.StringIO() of the n-th attempt

InitialSysPath == << "/usr/lib/python" >>
SearchPaths    == { "/usr/lib/python", "/venv/site-packages", "/opt/site-packages" }

\* the directories a package's __path__ may name, and path.glob('*.py') of each
\* (file stems, in the order the file system yields them)
glob(dir) ==
    CASE dir = "pkg"    -> << "alpha", "_private", "beta" >>
      [] dir = "pkg_ext" -> << "beta", "gamma" >>
      [] OTHER           -> <<>>
exists(dir) == dir \in { "pkg", "pkg_ext" }

\* main_module.__path__: <<>> for a single-file module (None)
PackagePaths ==
    { <<>>, << "pkg" >>, << "pkg", "pkg_ext" >>, << "pkg_ext", "pkg" >>,
      << "missing_dir", "pkg_ext" >> }

\* what importing a module does
ImportFailures == { "ImportError", "Exception", "SystemExit", "KeyboardInterrupt" }
ModuleShapes   == { "functions", "classes", "constants", "empty" }

\* the module object an import yields, by shape
Loaded(shape, name) ==
    CASE shape = "functions" ->
           ModuleObj(name, {}, << FuncObj("f", name, << Param("x", EmptyT, FALSE) >>, IntT) >>)
      [] shape = "classes" ->
           ModuleObj(name, {}, << ClassObj("K", name,
               << FuncObj("m", name, << Param("self", EmptyT, FALSE),
                                        Param("n", IntT, FALSE) >>, StrT) >>) >>)
      [] shape = "constants" ->
           ModuleObj(name, {}, << ValueObj("X", "int", 2) >>)
      [] OTHER -> ModuleObj(name, {}, <<>>)

\* lines 314-320: the submodule names tried, in order; a dotted name is the
\* sequence of its components, so f"{package_name}.{stem}" appends the stem
RECURSIVE Candidates(_, _)
Candidates(package_name, package_path) ==
    IF package_path = <<>> THEN <<>>
    ELSE LET dir   == Head(package_path)
             files == IF exists(dir)
                      THEN SelectSeq(glob(dir), LAMBDA stem : ~startswith_underscore(stem))
                      ELSE <<>>
         IN [i \in 1..Len(files) |-> package_name \o <<files[i]>>]
            \o Candidates(package_name, Tail(package_path))

NoCall   == [package_name |-> <<>>, site_packages_path |-> "", package_path |-> <<>>]
NoLocals == [modules |-> <<>>, queue |-> <<>>, idx |-> 0, old_stdout |-> ConsoleOut,
             old_stderr |-> ConsoleErr, pending |-> "", world |-> <<>>]
NoResult == [kind |-> "none", keys |-> {}, error |-> "", modules |-> <<>>,
             missing |-> <<>>, coverage |-> 0]

SchemaKeys == { "package", "version", "modules", "extractedAt",
                "missingAnnotations", "typeAnnotationCoverage" }

\* a plausible slip of lines 283-284: the path is inserted unconditionally
InsertSearchPath_Always(path, sp) == <<sp>> \o path

\* lines 283-284
InsertSearchPath(path, sp) == IF sp \notin Range(path) THEN <<sp>> \o path ELSE path

\* a plausible slip of line 334: only Exception is absorbed
Absorbed_ExceptionOnly(failure) == failure \in { "ImportError", "Exception" }

\* line 334: except (Exception, SystemExit)
Absorbed(failure) == failure \in { "ImportError", "Exception", "SystemExit" }

\* line 289: except ImportError
IsImportError(failure) == failure = "ImportError"

\* line 332
KeepSubmodule(sub_info) == sub_info.functions # <<>> \/ sub_info.classes # <<>>

\* a plausible slip of lines 329-330: the streams are restored only after a
\* successful import
RestoredStream_OnSuccess(old, current, pending) ==
    IF pending \in ModuleShapes THEN old ELSE current

\* lines 329-330: finally restores whatever the import did
RestoredStream(old, current, pending) == old

\* what an import of `name` does in this call: the first attempt decides,
\* later attempts of the same name repeat it
Outcomes(world, name) ==
    LET known == { w \in Range(world) : w[1] = name }
    IN IF known = {} THEN ModuleShapes \cup ImportFailures
       ELSE { w[2] : w \in known }

(***************************************************************************)
(* extract_package_types, step by step.                                    *)
(***************************************************************************)
\* lines 274-284: the call starts; the search path is made importable
Call ==
    /\ pc \in { "idle", "returned", "raised" }
    /\ \E sp \in SearchPaths, pp \in PackagePaths :
         /\ call' = [package_name |-> <<"pkg">>, site_packages_path |-> sp, package_path |-> pp]
         /\ sys_path' = InsertSearchPath(sys_path, sp)
    /\ loc' = NoLocals
    /\ result' = NoResult
    /\ emitted' = {}
    /\ pc' = "import_main"
    /\ UNCHANGED <<fnVars, sys_stdout, sys_stderr>>

\* lines 286-290: the package imports
ImportMainOk ==
    /\ pc = "import_main"
    /\ \E shape \in ModuleShapes : loc' = [loc EXCEPT !.pending = shape]
    /\ pc' = "walk_main"
    /\ UNCHANGED <<fnVars, sys_path, sys_stdout, sys_stderr, emitted, call, result>>

\* lines 286-290: the import of the package fails
ImportMainFails ==
    /\ pc = "import_main"
    /\ \E failure \in ImportFailures :
         IF IsImportError(failure)
         THEN /\ result' = [NoResult EXCEPT !.kind = "error", !.keys = {"error"},
                                            !.error = failure]
              /\ pc' = "returned"
         ELSE /\ result' = [NoResult EXCEPT !.kind = "raised", !.error = failure]
              /\ pc' = "raised"
    /\ UNCHANGED <<fnVars, sys_path, sys_stdout, sys_stderr, emitted, call, loc>>

\* lines 292-312: version lookup (absorbs every failure), the main module is
\* walked and becomes the first entry
WalkMain ==
    /\ pc = "walk_main"
    /\ loc' = [loc EXCEPT
                 !.modules = << extract_module_info(
                                  Loaded(loc.pending, call.package_name),
                                  call.package_name) >>,
                 !.queue = Candidates(call.package_name, call.package_path),
                 !.idx = 0,
                 !.pending = ""]
    /\ pc' = "loop"
    /\ UNCHANGED <<fnVars, sys_path, sys_stdout, sys_stderr, emitted, call, result>>

\* lines 313-326: the next candidate file; the streams are saved and replaced
Redirect ==
    /\ pc = "loop"
    /\ loc.idx < Len(loc.queue)
    /\ loc' = [loc EXCEPT !.idx = loc.idx + 1,
                          !.old_stdout = sys_stdout, !.old_stderr = sys_stderr]
    /\ sys_stdout' = StringIO(loc.idx + 1)
    /\ sys_stderr' = StringIO(loc.idx + 1)
    /\ pc' = "import_sub"
    /\ UNCHANGED <<fnVars, sys_path, emitted, call, result>>

\* line 328: the submodule imports or fails, after writing to the streams
ImportSub ==
    /\ pc = "import_sub"
    /\ \E o \in Outcomes(loc.world, loc.queue[loc.idx]) :
         loc' = [loc EXCEPT !.pending = o,
                            !.world = Append(loc.world, <<loc.queue[loc.idx], o>>)]
    /\ emitted' = emitted \cup { sys_stdout, sys_stderr }
    /\ pc' = "finally"
    /\ UNCHANGED <<fnVars, sys_path, sys_stdout, sys_stderr, call, result>>

\* lines 329-336: finally, then the walk or the except clause
Restore ==
    /\ pc = "finally"
    /\ sys_stdout' = RestoredStream(loc.old_stdout, sys_stdout, loc.pending)
    /\ sys_stderr' = RestoredStream(loc.old_stderr, sys_stderr, loc.pending)
    /\ IF loc.pending \in ModuleShapes
       THEN pc' = "walk_sub" /\ UNCHANGED result
       ELSE IF Absorbed(loc.pending)
       THEN pc' = "loop" /\ UNCHANGED result
       ELSE /\ pc' = "raised"
            /\ result' = [NoResult EXCEPT !.kind = "raised", !.error = loc.pending]
    /\ UNCHANGED <<fnVars, sys_path, emitted, call, loc>>

\* lines 331-333
WalkSub ==
    /\ pc = "walk_sub"
    /\ LET name     == loc.queue[loc.idx]
           sub_info == extract_module_info(Loaded(loc.pending, name), name)
       IN loc' = [loc EXCEPT !.modules = IF KeepSubmodule(sub_info)
                                         THEN Append(@, sub_info) ELSE @]
    /\ pc' = "loop"
    /\ UNCHANGED <<fnVars, sys_path, sys_stdout, sys_stderr, emitted, call, result>>

\* lines 338-360: the schema, the misses and the coverage
Finish ==
    /\ pc = "loop"
    /\ loc.idx = Len(loc.queue)
    /\ \E cf \in CoverageFields(loc.modules) :
            result' = [kind |-> "schema", keys |-> SchemaKeys, error |-> "",
                       modules |-> loc.modules, missing |-> cf.missing,
                       coverage |-> cf.coverage]
    /\ pc' = "returned"
    /\ UNCHANGED <<fnVars, sys_path, sys_stdout, sys_stderr, emitted, call, loc>>

InitPkg ==
    /\ pc = "idle"
    /\ arg = NoValue
    /\ out = NoValue
    /\ sys_path = InitialSysPath
    /\ sys_stdout = ConsoleOut
    /\ sys_stderr = ConsoleErr
    /\ emitted = {}
    /\ call = NoCall
    /\ loc = NoLocals
    /\ result = NoResult

NextPkg ==
    \/ Call
    \/ ImportMainOk
    \/ ImportMainFails
    \/ WalkMain
    \/ Redirect
    \/ ImportSub
    \/ Restore
    \/ WalkSub
    \/ Finish

SpecPkg == InitPkg /\ [][NextPkg]_vars

(***************************************************************************)
(* Harnesses of the pure functions: the input is drawn from a bounded set, *)
(* one step applies the function.  The process-wide state stays untouched. *)
(***************************************************************************)
PkgUntouched ==
    /\ sys_path = InitialSysPath
    /\ sys_stdout = ConsoleOut
    /\ sys_stderr = ConsoleErr
    /\ emitted = {}
    /\ call = NoCall
    /\ loc = NoLocals
    /\ result = NoResult

\* ---- parse_type_annotation ----
InitResolve == pc = "input" /\ arg \in Annotations /\ out = NoValue /\ PkgUntouched

Resolve ==
    /\ pc = "input"
    /\ out' = parse_type_annotation(arg)
    /\ pc' = "done"
    /\ UNCHANGED <<arg, pkgVars>>

NextResolve == Resolve

SpecResolve == InitResolve /\ [][NextResolve]_vars

\* ---- extract_function_info, extract_class_info ----
MaxParams == 2

ParamNames == { "self", "this", "x", "y" }

\* the annotation and default each parameter name carries in the inputs
DeclaredParam(n) ==
    CASE n = "x" -> Param(n, IntT, FALSE)
      [] n = "y" -> Param(n, FwdT("str"), TRUE)
      [] OTHER   -> Param(n, EmptyT, FALSE)

\* declared parameter lists of lo..MaxParams distinct names
ParamLists(lo) ==
    { [i \in 1..Len(s) |-> DeclaredParam(s[i])] : s \in InjSeqs(ParamNames, lo, MaxParams) }

\* module-level functions, and a callable whose signature cannot be read
FunctionInputs ==
    { FuncObj("f", "pkg.mod", ps, UnionT(<<FloatT, NoneT>>)) : ps \in ParamLists(0) }
    \cup { Obj("f", "function", TRUE, "pkg.mod", FALSE, <<>>, EmptyT, <<>>, "function", 0) }

\* classes: instance methods declare the instance reference first
ClassInputs ==
    { ClassObj("K", "pkg.mod",
        << FuncObj("__init__", "pkg.mod", p, NoneT),
           FuncObj("_hidden", "pkg.mod", << DeclaredParam("self") >>, EmptyT),
           FuncObj("m", "pkg.mod", q, IntT) >>) : p \in ParamLists(1), q \in ParamLists(1) }
    \cup { ClassObj("K", "pkg.mod", << FuncObj("m", "pkg.mod", q, IntT) >>) : q \in ParamLists(1) }

InitSymbol ==
    pc = "input" /\ arg \in FunctionInputs \cup ClassInputs /\ out = NoValue /\ PkgUntouched

ExtractFunction ==
    /\ pc = "input"
    /\ arg.kind = "function"
    /\ out' = extract_function_info(arg, arg.name)
    /\ pc' = "done"
    /\ UNCHANGED <<arg, pkgVars>>

ExtractClass ==
    /\ pc = "input"
    /\ arg.kind = "class"
    /\ out' = extract_class_info(arg)
    /\ pc' = "done"
    /\ UNCHANGED <<arg, pkgVars>>

NextSymbol == ExtractFunction \/ ExtractClass

SpecSymbol == InitSymbol /\ [][NextSymbol]_vars

\* ---- extract_module_info ----
MaxDir == 2

ValueTypes  == { "str", "dict", "list" }
ReprLengths == { ReprLimit - 1, ReprLimit }

\* objects a module's dir() can name
ModuleSymbols ==
    { FuncObj("f", m, << DeclaredParam("x") >>, IntT) : m \in { "pkg.mod", "other.lib" } }
    \cup { ClassObj("K", m, << FuncObj("m", m, << DeclaredParam("self") >>, IntT) >>) :
             m \in { "pkg.mod", "other.lib" } }
    \cup { InstanceObj("inst", m, "Logger", 30) : m \in { "pkg.mod", "other.lib" } }
    \cup { ValueObj("X", t, n) : t \in ValueTypes, n \in ReprLengths }
    \cup { FuncObj("_f", "pkg.mod", <<>>, EmptyT), ValueObj("_X", "int", 2),
           BuiltinObj("len", "builtins"), NoneObj("nothing"),
           ValueObj("os", "module", 40) }

ModuleDirs ==
    { d \in InjSeqs(ModuleSymbols, 1, MaxDir) :
        \A i, j \in 1..Len(d) : i # j => d[i].name # d[j].name }

\* modules named pkg.mod; __all__ lists the names bound at the positions
\* picked (none when __all__ is absent)
ModuleInputs ==
    { ModuleObj("pkg.mod",
                { dir[i].name : i \in picked \cap (1..Len(dir)) }, dir) :
        dir \in ModuleDirs, picked \in SUBSET (1..MaxDir) }

InitModule == pc = "input" /\ arg \in ModuleInputs /\ out = NoValue /\ PkgUntouched

Walk ==
    /\ pc = "input"
    /\ out' = extract_module_info(arg, arg.name)
    /\ pc' = "done"
    /\ UNCHANGED <<arg, pkgVars>>

NextModule == Walk

SpecModule == InitModule /\ [][NextModule]_vars

\* ---- count_missing_annotations and the coverage of lines 345-358 ----
MaxFuncs  == 1
WideArity == 20000

SlotTypes == { KAny, KPrimitive("int") }

\* The inputs hold each parameter list run-length encoded, a run being n
\* parameters of one type; Expand... turn them into the descriptor lists
\* extract_function_info builds, which is what the coverage code reads.
Run(type, n) == [type |-> type, n |-> n]

ExpandParams(runs) ==
    Flatten([i \in 1..Len(runs) |->
        [j \in 1..runs[i].n |-> [name |-> "p", type |-> runs[i].type, optional |-> FALSE]]])
ExpandFunc(f)   == [f EXCEPT !.params = ExpandParams(@)]
ExpandFuncs(fs) == [i \in 1..Len(fs) |-> ExpandFunc(fs[i])]
ExpandClass(c)  == [c EXCEPT !.methods = ExpandFuncs(@)]
ExpandModule(m) ==
    [m EXCEPT !.functions = ExpandFuncs(@),
              !.classes = [i \in 1..Len(@) |-> ExpandClass(@[i])]]
ExpandSchema(ms) == [i \in 1..Len(ms) |-> ExpandModule(ms[i])]

ParamDescs ==
    { [i \in 1..Len(ts) |-> Run(ts[i], 1)] :
        ts \in UNION { [1..n -> SlotTypes] : n \in 0..MaxParams } }

FuncDescs ==
    { [name |-> "f", params |-> ps, returnType |-> r, isMethod |-> FALSE] :
        ps \in ParamDescs, r \in SlotTypes }

\* a function of WideArity annotated parameters and no return annotation
WideFunc ==
    [name |-> "wide", params |-> << Run(KPrimitive("int"), WideArity) >>,
     returnType |-> KAny, isMethod |-> FALSE]

FuncLists == UNION { [1..n -> FuncDescs] : n \in 0..MaxFuncs }

ModuleDesc(fs, cs) == [name |-> "pkg", functions |-> fs, classes |-> cs, constants |-> <<>>]
ClassDesc(ms) == [name |-> "K", constructor |-> <<>>, methods |-> AsMethod(ms)]

\* the methods and companions tried: at most one parameter
ShortFuncs == { f \in FuncDescs : Len(f.params) <= 1 }
ShortLists == { <<>> } \cup { << f >> : f \in ShortFuncs }

ModuleDescs ==
    { ModuleDesc(fs, cs) :
        fs \in FuncLists,
        cs \in { <<>> } \cup { << ClassDesc(ms) >> : ms \in ShortLists \ { <<>> } } }

\* module lists of one module, of two, and of one holding the wide function
SchemaInputs ==
    { << m >> : m \in ModuleDescs }
    \cup { << ModuleDesc(<<>>, <<>>), m >> : m \in ModuleDescs }
    \cup { << ModuleDesc(<< WideFunc >> \o fs, <<>>) >> : fs \in ShortLists }

InitCoverage == pc = "input" /\ arg \in SchemaInputs /\ out = NoValue /\ PkgUntouched

ComputeCoverage ==
    /\ pc = "input"
    /\ out' \in CoverageFields(ExpandSchema(arg))
    /\ pc' = "done"
    /\ UNCHANGED <<arg, pkgVars>>

NextCoverage == ComputeCoverage

SpecCoverage == InitCoverage /\ [][NextCoverage]_vars

(***************************************************************************)
(* The claims.                                                             *)
(***************************************************************************)
ModuleNames(ms) == { ms[i].name : i \in 1..Len(ms) }
Names(ps) == [i \in 1..Len(ps) |-> ps[i].name]

\* C1: a submodule whose import raises an Exception or SystemExit is absent
\* from `modules`, nothing of the kind leaves extract_package_types, and
\* every candidate is still attempted, in order: every submodule that
\* imports and has a function or a class is in `modules`.
C1_FailingSubmodulesSkipped ==
    /\ (pc = "raised" /\ loc.idx > 0) =>
          result.error \notin { "ImportError", "Exception", "SystemExit" }
    /\ (pc = "returned" /\ result.kind = "schema") =>
          /\ Len(loc.world) = Len(loc.queue)
          /\ \A i \in 1..Len(loc.queue) : loc.world[i][1] = loc.queue[i]
          /\ \A w \in Range(loc.world) :
               /\ w[2] \in ImportFailures =>
                    w[1] \notin ModuleNames(Tail(result.modules))
               /\ w[2] \in { "functions", "classes" } =>
                    w[1] \in ModuleNames(Tail(result.modules))

\* the first candidate exits the process, the last one raises, and one in
\* between is extracted
C1_Witness ==
    /\ pc = "returned" /\ result.kind = "schema"
    /\ Len(loc.world) >= 3
    /\ loc.world[1][2] = "SystemExit"
    /\ loc.world[Len(loc.world)][2] = "Exception"
    /\ loc.world[2][2] = "classes"
    /\ loc.world[2][1] \in ModuleNames(Tail(result.modules))

\* C2: while a submodule imports, sys.stdout and sys.stderr are one discard
\* buffer; at every other point of the call, and after it, they are the
\* objects they were before, and nothing a submodule wrote reached them.
C2_StreamsRedirectedAndRestored ==
    /\ pc \in { "import_sub", "finally" } =>
          /\ sys_stdout = sys_stderr
          /\ sys_stdout.kind = "StringIO"
          /\ loc.old_stdout = ConsoleOut /\ loc.old_stderr = ConsoleErr
    /\ pc \notin { "import_sub", "finally" } =>
          sys_stdout = ConsoleOut /\ sys_stderr = ConsoleErr
    /\ emitted \cap { ConsoleOut, ConsoleErr } = {}

\* a call returned after a submodule exited the process and another raised
C2_Witness ==
    /\ pc = "returned" /\ result.kind = "schema"
    /\ \E i, j \in 1..Len(loc.world) :
         loc.world[i][2] = "SystemExit" /\ loc.world[j][2] = "Exception"
    /\ emitted # {}
    /\ sys_stdout = ConsoleOut /\ sys_stderr = ConsoleErr

\* C3 as claimed: whatever failure the import of the package raises, the
\* call returns {error: reason} and nothing else.
C3_Claimed ==
    (pc \in { "returned", "raised" } /\ loc.modules = <<>>) =>
        (pc = "returned" /\ result.kind = "error" /\ result.keys = { "error" })

\* C8: sys.path never holds a value twice, and it changes only by the
\* insertion, in front, of the call's search path when that is not in it.
C8_SearchPathInsertedOnce ==
    /\ [](\A i, j \in 1..Len(sys_path) : i # j => sys_path[i] # sys_path[j])
    /\ [][ \/ sys_path' = sys_path
           \/ /\ call'.site_packages_path \notin Range(sys_path)
              /\ sys_path' = <<call'.site_packages_path>> \o sys_path ]_vars

\* a third call repeats a search path that an earlier call inserted, and
\* ends in the import-error result
C8_Witness ==
    /\ pc = "returned" /\ result.kind = "error"
    /\ Len(sys_path) = 3
    /\ call.site_packages_path = sys_path[2]

\* C9 as claimed: the main module is the first entry, every other entry is
\* a submodule that imported and has a function or a class, and no
\* submodule is listed twice.
C9_Claimed ==
    (pc = "returned" /\ result.kind = "schema") =>
        /\ result.modules[1].name = call.package_name
        /\ \A i \in 2..Len(result.modules) :
             \E w \in Range(loc.world) :
                w[1] = result.modules[i].name /\ w[2] \in { "functions", "classes" }
        /\ \A i, j \in 2..Len(result.modules) :
             i # j => result.modules[i].name # result.modules[j].name

DeclaredMethod(cls, name) ==
    IF name = "__init__" THEN InitOf(cls)
    ELSE CHOOSE m \in Range(cls.methods) : m.name = name

\* C6 as claimed: a method or constructor descriptor drops the first
\* declared parameter, whatever its name, and keeps the others in order; a
\* module-level function keeps every declared parameter.
C6_Claimed ==
    pc = "done" =>
        IF arg.kind = "class"
        THEN \A d \in Range(out.constructor) \cup Range(out.methods) :
                Names(d.params) = Tail(Names(DeclaredMethod(arg, d.name).params))
        ELSE out = <<>> \/ Names(out[1].params) = Names(arg.params)

ExtractedNames(info) ==
    ModuleNames(info.functions) \cup ModuleNames(info.classes)
        \cup ModuleNames(info.constants)

ConstantObject(module, name) == CHOOSE o \in Range(module.dir) : o.name = name

\* C10 as claimed: the value is withheld when the representation has
\* ReprLimit characters or more, or when the value is a dict or a list.
C10_Claimed ==
    pc = "done" =>
        \A k \in Range(out.constants) :
            LET o == ConstantObject(arg, k.name)
            IN IF o.reprLen >= ReprLimit \/ o.vtype \in { "dict", "list" }
               THEN k.value = <<>>
               ELSE k.value = << repr(o) >>

\* C10 amended: the value is withheld exactly when the value is a dict or
\* a list and its representation has ReprLimit characters or more; in
\* every other case it is the representation.
C10_ValueWithheldForLargeContainers ==
    pc = "done" =>
        \A k \in Range(out.constants) :
            LET o == ConstantObject(arg, k.name)
            IN IF o.vtype \in { "dict", "list" } /\ o.reprLen >= ReprLimit
               THEN k.value = <<>>
               ELSE k.value = << repr(o) >>

\* a long string and a short list keep their value, a long list loses it
C10_Witness ==
    /\ pc = "done"
    /\ \E k \in Range(out.constants) :
         LET o == ConstantObject(arg, k.name)
         IN o.vtype = "list" /\ o.reprLen >= ReprLimit /\ k.value = <<>>
    /\ Len(out.constants) = 1

\* every function and method of the module list
Callables(modules) ==
    Flatten([i \in 1..Len(modules) |->
        modules[i].functions
        \o Flatten([j \in 1..Len(modules[i].classes) |-> modules[i].classes[j].methods])])

\* the annotatable slots: the return and each parameter of each callable
AnnotatableSlots(modules) ==
    LET cs == Callables(modules)
    IN SumSeq([c \in 1..Len(cs) |-> Len(cs[c].params) + 1])

Full == 100 * Hundredths

\* C4 as claimed: the coverage is 100 when there is no slot or no miss,
\* and below 100 whenever there is a miss.
C4_Claimed ==
    pc = "done" =>
        LET total == AnnotatableSlots(ExpandSchema(arg))
            m     == Len(out.missing)
        IN /\ (total = 0 \/ m = 0) => out.coverage = Full
           /\ m > 0 => out.coverage < Full

\* C4 amended: the coverage is 100 when there is no slot or no miss; it is
\* (total - misses) / total * 100 to the nearest hundredth; and it is below
\* 100 whenever there is a miss and total < 2 * 100 * 100 * misses.
C4_CoverageRounded ==
    pc = "done" =>
        LET total == AnnotatableSlots(ExpandSchema(arg))
            m     == Len(out.missing)
            exact == (total - m) * Full
            diff  == out.coverage * total - exact
        IN /\ (total = 0 \/ m = 0) => out.coverage = Full
           /\ total > 0 => (2 * diff <= total /\ 2 * diff >= 0 - total)
           /\ (m > 0 /\ total < 2 * Full * m) => out.coverage < Full

\* a function with one miss among three slots
C4_Witness ==
    /\ pc = "done"
    /\ Len(out.missing) = 1
    /\ AnnotatableSlots(ExpandSchema(arg)) = 3
    /\ out.coverage = 6667
====
